---- MODULE Spec2Model ----
(***************************************************************************)
(* Model of bootstrap.py: a script that asks for confirmation, locates the *)
(* git root, creates <root>/.venv and installs the bootstrap modules.      *)
(*                                                                         *)
(* Every process p is one Python interpreter running the script.  The      *)
(* filesystem (the .venv directory and what it holds) is shared by all     *)
(* processes; everything else (program counter, call stack, the two        *)
(* lru_cache memo tables, locals) is private to a process.                 *)
(*                                                                         *)
(* Three specifications are given:                                         *)
(*   Spec      one process running main()                                  *)
(*   SpecConc  two processes running main() on the same repository         *)
(*   SpecUnit  one process that has imported the module and calls its      *)
(*             functions directly, in any order, with any arguments        *)
(*                                                                         *)
(* The outside world is nondeterministic: what the user types, whether git *)
(* is installed and the directory is a checkout, what each child process   *)
(* returns, what the filesystem holds when the run starts.  Two library    *)
(* calls are taken to succeed: venv.create, and input() (no end of file).  *)
(* log[p] records every command and library call a process issues, and     *)
(* the diagnostics it prints before sys.exit.                              *)
(***************************************************************************)
EXTENDS Integers, Sequences, FiniteSets, TLC

\* ------------------------------------------------------------------ bounds
MaxPrompts == 2      \* answers read by one confirmation_prompt
MaxExitCode == 2     \* child processes exit with 0..MaxExitCode
MaxModules == 2      \* length of the module list handed to install_tools

\* the two invocations of the script; Spec and SpecUnit run only the first
Procs == { 1, 2 }

VARIABLES
    pc,          \* pc[p]: statement process p executes next
    stack,       \* stack[p]: return addresses of the calls in progress
    exitCode,    \* exitCode[p]: exit status of p, meaningful once p has ended
    log,         \* log[p]: commands and library calls issued, in order
    gitCache,    \* gitCache[p]: lru_cache of get_git_root ("" = empty)
    pipCache,    \* pipCache[p]: lru_cache of pip_module_is_available
    choice,      \* choice[p]: local `choice` of confirmation_prompt
    prompts,     \* prompts[p]: number of input() calls of the current prompt
    proceed,     \* proceed[p]: value returned by confirmation_prompt
    modules,     \* modules[p]: argument `modules` of install_tools
    command,     \* command[p]: argument `command` of run_command
    check,       \* check[p]: argument `check` of run_command
    lastRun,     \* lastRun[p]: what the latest subprocess.run of run_command did
    called,      \* called[p]: the function p called directly last (SpecUnit)
    created,     \* created[p]: number of times p has run venv.create
    dirExists,   \* <git root>/.venv exists
    pyExists,    \* the interpreter inside .venv exists
    pipExists,   \* the pip executable inside .venv exists
    windows      \* sys.platform == "win32"

vars == <<pc, stack, exitCode, log, gitCache, pipCache, choice, prompts,
          proceed, modules, command, check, lastRun, called, created, dirExists, pyExists,
          pipExists, windows>>

fsVars == <<dirExists, pyExists, pipExists>>

\* ---------------------------------------------------------- InstallSpec
InstallSpec(name, version, extras) ==
    [name |-> name, version |-> version, extras |-> extras]

BOOTSTRAP_MODULES ==
    << InstallSpec("uv", ">=0.9.18", ""),
       InstallSpec("tox", ">=4.32.0", ""),
       InstallSpec("tox-uv", ">=1.29.0", "") >>

\* InstallSpec values a caller may pass (SpecUnit)
SpecPool ==
    { InstallSpec("uv", ">=0.9.18", ""),
      InstallSpec("uv", "", ""),
      InstallSpec("tox", ">=4.32.0", ""),
      InstallSpec("tox-uv", "", "[dev]") }

RECURSIVE SeqsUpTo(_, _)
SeqsUpTo(S, n) ==
    IF n = 0 THEN { <<>> }
    ELSE LET shorter == SeqsUpTo(S, n - 1)
         IN  shorter \cup { Append(s, x) : s \in shorter, x \in S }

ModuleLists == SeqsUpTo(SpecPool, MaxModules) \cup { BOOTSTRAP_MODULES }

\* ------------------------------------------------------------- platform
_is_windows == windows

GitRoot == "/repo"

VenvDir(git_root) == git_root \o "/.venv"

path_to_venv_python(venv_dir) ==
    LET bin_dir == venv_dir \o (IF _is_windows THEN "/Scripts" ELSE "/bin")
    IN  bin_dir \o (IF _is_windows THEN "/python.exe" ELSE "/python")

pip_path(venv_dir) ==
    IF _is_windows THEN venv_dir \o "/Scripts/pip.exe"
    ELSE venv_dir \o "/bin/pip"

python_exe == path_to_venv_python(VenvDir(GitRoot))

\* Path.exists() for the paths the script tests
PathExists(path) ==
    IF path = VenvDir(GitRoot) THEN dirExists
    ELSE IF path = python_exe THEN pyExists
    ELSE IF path = pip_path(VenvDir(GitRoot)) THEN pipExists
    ELSE FALSE

\* ---------------------------------------------------------------- strings
\* A line typed by the user is a sequence of characters.
LowerChar(c) ==
    CASE c = "Y" -> "y"
      [] c = "E" -> "e"
      [] c = "S" -> "s"
      [] c = "N" -> "n"
      [] c = "O" -> "o"
      [] OTHER -> c

lower(s) == [i \in 1..Len(s) |-> LowerChar(s[i])]

IsSpace(c) == c = " "

RECURSIVE lstrip(_)
lstrip(s) == IF s # <<>> /\ IsSpace(Head(s)) THEN lstrip(Tail(s)) ELSE s

RECURSIVE rstrip(_)
rstrip(s) ==
    IF s # <<>> /\ IsSpace(s[Len(s)]) THEN rstrip(SubSeq(s, 1, Len(s) - 1))
    ELSE s

strip(s) == rstrip(lstrip(s))

\* the lines the user may type
Answers ==
    { <<>>, <<"y">>, <<"Y">>, <<"y", "e", "s">>, <<"Y", "e", "s">>,
      <<"n">>, <<"n", "o">>, <<"N", "O">>, <<" ", "y", " ">>, <<"q">> }

\* line 260: the tokens that end the prompt loop
LoopTokens == { <<"y">>, <<"y", "e", "s">>, <<"n">>, <<"n", "o">> }

\* line 269: the tokens that mean yes
YesTokens == { <<>>, <<"y">>, <<"y", "e", "s">> }

\* line 260: the loop condition of confirmation_prompt
prompt_again(c) == lower(strip(c)) \notin LoopTokens

\* line 269: the value confirmation_prompt returns after the loop
prompt_result(c) == lower(strip(c)) \in YesTokens

\* line 267: the value confirmation_prompt returns on KeyboardInterrupt
interrupt_result == FALSE

\* ------------------------------------------------------- control transfer
\* Each of these five says what becomes of pc, stack and exitCode.
Goto(p, label) ==
    /\ pc' = [pc EXCEPT ![p] = label]
    /\ UNCHANGED <<stack, exitCode>>

Call(p, entry, ret) ==
    /\ pc' = [pc EXCEPT ![p] = entry]
    /\ stack' = [stack EXCEPT ![p] = <<ret>> \o @]
    /\ UNCHANGED exitCode

Return(p) ==
    /\ pc' = [pc EXCEPT ![p] = Head(stack[p])]
    /\ stack' = [stack EXCEPT ![p] = Tail(@)]
    /\ UNCHANGED exitCode

\* sys.exit(code): SystemExit unwinds every frame and ends the process
Exit(p, code) ==
    /\ pc' = [pc EXCEPT ![p] = "exited"]
    /\ stack' = [stack EXCEPT ![p] = <<>>]
    /\ exitCode' = [exitCode EXCEPT ![p] = code]

\* an exception nobody catches: the interpreter prints a traceback and
\* ends the process with status 1
Raise(p) ==
    /\ pc' = [pc EXCEPT ![p] = "traceback"]
    /\ stack' = [stack EXCEPT ![p] = <<>>]
    /\ exitCode' = [exitCode EXCEPT ![p] = 1]

Logged(p, entry) == log' = [log EXCEPT ![p] = Append(@, entry)]

\* a diagnostic line printed before sys.exit
Diagnostic(text) == <<"print", text>>

\* ------------------------------------------------------ Repository Locator
\* faulty variant: get_git_root without its @cache
git_root_never_cached(p) == FALSE

\* @cache: a call finds the value of an earlier call that returned
git_root_cached(p) == gitCache[p] # ""

GitCommand == <<"git", "rev-parse", "--show-toplevel">>
DirectoryWalk == <<"Path.cwd", "parents", ".git">>

\* what subprocess.check_output(['git', ...]) and the walk can do
GitOutcomes == { "root", "no_git_marker_found", "no_git_no_marker",
                 "not_a_repository", "interrupt" }

get_git_root(p) ==
    /\ pc[p] = "get_git_root"
    /\ IF git_root_cached(p)
       THEN /\ Return(p)
            /\ UNCHANGED <<log, gitCache>>
       ELSE \E outcome \in GitOutcomes :
              CASE outcome = "root" ->
                     /\ Logged(p, GitCommand)
                     /\ gitCache' = [gitCache EXCEPT ![p] = GitRoot]
                     /\ Return(p)
                [] outcome = "no_git_marker_found" ->
                     /\ log' = [log EXCEPT
                                  ![p] = @ \o <<GitCommand, DirectoryWalk>>]
                     /\ gitCache' = [gitCache EXCEPT ![p] = GitRoot]
                     /\ Return(p)
                [] outcome = "no_git_no_marker" ->
                     /\ log' = [log EXCEPT
                                  ![p] = @ \o <<GitCommand, DirectoryWalk,
                                                Diagnostic("no .git")>>]
                     /\ Exit(p, 1)
                     /\ UNCHANGED gitCache
                [] outcome = "not_a_repository" ->
                     /\ log' = [log EXCEPT
                                  ![p] = @ \o <<GitCommand,
                                                Diagnostic("not a git repository")>>]
                     /\ Exit(p, 1)
                     /\ UNCHANGED gitCache
                [] outcome = "interrupt" ->
                     \* KeyboardInterrupt: caught by the try of
                     \* confirmation_prompt when that is the caller
                     /\ Logged(p, GitCommand)
                     /\ UNCHANGED gitCache
                     /\ IF stack[p] # <<>> /\ Head(stack[p]) = "cp_got_root"
                        THEN /\ pc' = [pc EXCEPT ![p] = "cp_interrupted"]
                             /\ stack' = [stack EXCEPT ![p] = Tail(@)]
                             /\ UNCHANGED exitCode
                        ELSE Raise(p)
    /\ UNCHANGED <<pipCache, choice, prompts, proceed, modules, command,
                   check, lastRun, called, created, fsVars, windows>>

\* --------------------------------------------------------- Command Runner
\* programs found on PATH, besides the executables inside .venv
PathPrograms == { "echo" }

Executable(program) == program \in PathPrograms \/ PathExists(program)

\* what subprocess.run can do with a program that exists or does not
Outcomes(exists) ==
    IF exists
    THEN { [found |-> TRUE, returncode |-> c] : c \in 0..MaxExitCode }
    ELSE { [found |-> FALSE, returncode |-> 0] }

\* subprocess.run(command, check=check) raises CalledProcessError
CalledProcessError(outcome, chk) ==
    outcome.found /\ chk /\ outcome.returncode # 0

\* faulty variant: sys.exit(1) in both except clauses
run_command_exit_one(outcome, chk) ==
    IF ~outcome.found \/ CalledProcessError(outcome, chk)
    THEN [exits |-> TRUE, code |-> 1]
    ELSE [exits |-> FALSE, code |-> 0]

\* faulty variant: CalledProcessError is not turned into an exit
run_command_exit_ignored(outcome, chk) ==
    IF ~outcome.found THEN [exits |-> TRUE, code |-> 1]
    ELSE [exits |-> FALSE, code |-> 0]

\* lines 245-250: the two except clauses, as the sys.exit they end in
run_command_exit(outcome, chk) ==
    IF ~outcome.found THEN [exits |-> TRUE, code |-> 1]
    ELSE IF CalledProcessError(outcome, chk)
         THEN [exits |-> TRUE, code |-> outcome.returncode]
         ELSE [exits |-> FALSE, code |-> 0]

NoRun == [found |-> TRUE, returncode |-> 0, check |-> TRUE, ran |-> FALSE]

run_command(p) ==
    /\ pc[p] = "run_command"
    /\ \E outcome \in Outcomes(Executable(command[p][1])) :
         LET status == run_command_exit(outcome, check[p])
         IN  /\ lastRun' = [lastRun EXCEPT
                              ![p] = [found |-> outcome.found,
                                      returncode |-> outcome.returncode,
                                      check |-> check[p], ran |-> TRUE]]
             /\ IF status.exits
                THEN /\ log' = [log EXCEPT
                                  ![p] = @ \o <<command[p],
                                                Diagnostic("command failed")>>]
                     /\ Exit(p, status.code)
                ELSE /\ Logged(p, command[p])
                     /\ Return(p)
    /\ UNCHANGED <<gitCache, pipCache, choice, prompts, proceed, modules,
                   command, check, called, created, fsVars, windows>>

\* a call of run_command(cmd, check=chk) that returns to `ret`
CallRunCommand(p, cmd, chk, ret) ==
    /\ command' = [command EXCEPT ![p] = cmd]
    /\ check' = [check EXCEPT ![p] = chk]
    /\ Call(p, "run_command", ret)

\* ------------------------------------------------------- User Interaction
InputCall == <<"input", "Continue? [y/n] ">>

\* line 256: git_root = get_git_root(), inside the try
confirmation_prompt(p) ==
    /\ pc[p] = "confirmation_prompt"
    /\ Call(p, "get_git_root", "cp_got_root")
    /\ UNCHANGED <<log, gitCache, pipCache, choice, prompts, proceed, modules,
                   command, check, lastRun, called, created, fsVars, windows>>

\* lines 257-259: the two prints, then choice = ''
cp_got_root(p) ==
    /\ pc[p] = "cp_got_root"
    /\ choice' = [choice EXCEPT ![p] = <<>>]
    /\ prompts' = [prompts EXCEPT ![p] = 0]
    /\ Goto(p, "cp_loop")
    /\ UNCHANGED <<log, gitCache, pipCache, proceed, modules, command, check,
                   lastRun, called, created, fsVars, windows>>

\* line 260: the while test
cp_loop(p) ==
    /\ pc[p] = "cp_loop"
    /\ IF prompt_again(choice[p]) THEN Goto(p, "cp_input")
       ELSE Goto(p, "cp_return")
    /\ UNCHANGED <<log, gitCache, pipCache, choice, prompts, proceed, modules,
                   command, check, lastRun, called, created, fsVars, windows>>

\* lines 261-264: choice = input(...); the user types a line or interrupts
cp_input(p) ==
    /\ pc[p] = "cp_input"
    /\ prompts[p] < MaxPrompts
    /\ Logged(p, InputCall)
    /\ prompts' = [prompts EXCEPT ![p] = @ + 1]
    /\ \/ \E line \in Answers :
            /\ choice' = [choice EXCEPT ![p] = line]
            /\ Goto(p, "cp_loop")
       \/ /\ UNCHANGED choice
          /\ Goto(p, "cp_interrupted")
    /\ UNCHANGED <<gitCache, pipCache, proceed, modules, command, check,
                   lastRun, called, created, fsVars, windows>>

\* lines 265-267: except KeyboardInterrupt
cp_interrupted(p) ==
    /\ pc[p] = "cp_interrupted"
    /\ proceed' = [proceed EXCEPT ![p] = interrupt_result]
    /\ choice' = [choice EXCEPT ![p] = <<>>]
    /\ prompts' = [prompts EXCEPT ![p] = 0]
    /\ Return(p)
    /\ UNCHANGED <<log, gitCache, pipCache, modules, command,
                   check, lastRun, called, created, fsVars, windows>>

\* line 269
cp_return(p) ==
    /\ pc[p] = "cp_return"
    /\ proceed' = [proceed EXCEPT ![p] = prompt_result(choice[p])]
    /\ choice' = [choice EXCEPT ![p] = <<>>]
    /\ prompts' = [prompts EXCEPT ![p] = 0]
    /\ Return(p)
    /\ UNCHANGED <<log, gitCache, pipCache, modules, command,
                   check, lastRun, called, created, fsVars, windows>>

\* lines 483-488
activate_script ==
    IF _is_windows THEN ".venv\\Scripts\\activate.bat"
    ELSE "source .venv/bin/activate"

print_instructions == <<"print_instructions", activate_script>>

\* ----------------------------------------------------- Environment Builder
\* faulty variant: the existence check left out
venv_missing_always(venv_dir) == TRUE

\* line 353: if not venv_dir.exists()
venv_missing(venv_dir) == ~PathExists(venv_dir)

VenvCreate == <<"venv.create", VenvDir(GitRoot), "with_pip=True">>
EnsurePip == <<python_exe, "-m", "ensurepip", "--upgrade">>
PipProbe == <<python_exe, "-m", "pip", "--version">>
UpgradeByModule ==
    <<python_exe, "-m", "pip", "install", "--upgrade", "pip",
      "--require-virtualenv">>
UpgradeByExecutable ==
    <<pip_path(VenvDir(GitRoot)), "install", "--upgrade", "pip">>

\* variant with a lock: the check waits while another process is between
\* its own check and the end of its creation work
create_virtual_environment_locked(p) ==
    /\ pc[p] = "create_virtual_environment"
    /\ \A q \in Procs \ { p } :
          /\ pc[q] \notin { "cve_create", "cve_ensurepip", "cve_probe",
                            "cve_pip_path", "cve_upgrade_module",
                            "cve_return" }
          /\ \A i \in 1..Len(stack[q]) :
                stack[q][i] \notin { "cve_probe", "cve_return" }
    /\ IF venv_missing(VenvDir(GitRoot)) THEN Goto(p, "cve_create")
       ELSE Return(p)
    /\ UNCHANGED <<log, gitCache, pipCache, choice, prompts, proceed, modules,
                   command, check, lastRun, called, created, fsVars, windows>>

\* lines 350-353 and 374-376: the existence check
create_virtual_environment(p) ==
    /\ pc[p] = "create_virtual_environment"
    /\ IF venv_missing(VenvDir(GitRoot)) THEN Goto(p, "cve_create")
       ELSE Return(p)
    /\ UNCHANGED <<log, gitCache, pipCache, choice, prompts, proceed, modules,
                   command, check, lastRun, called, created, fsVars, windows>>

\* line 355: create_venv(venv_dir, with_pip=True); the directory and the
\* interpreter exist afterwards, the pip script may or may not
cve_create(p) ==
    /\ pc[p] = "cve_create"
    /\ Logged(p, VenvCreate)
    /\ created' = [created EXCEPT ![p] = @ + 1]
    /\ dirExists' = TRUE
    /\ pyExists' = TRUE
    /\ pipExists' \in { pipExists, TRUE }
    /\ Goto(p, "cve_ensurepip")
    /\ UNCHANGED <<gitCache, pipCache, choice, prompts, proceed, modules,
                   command, check, lastRun, called, windows>>

\* line 358
cve_ensurepip(p) ==
    /\ pc[p] = "cve_ensurepip"
    /\ CallRunCommand(p, EnsurePip, TRUE, "cve_probe")
    /\ UNCHANGED <<log, gitCache, pipCache, choice, prompts, proceed, modules,
                   lastRun, called, created, fsVars, windows>>

\* faulty variant: the test of line 362 without its `not`
upgrade_branch_swapped(available) ==
    IF available THEN "cve_pip_path" ELSE "cve_upgrade_module"

\* line 362: the branch taken on pip_module_is_available(python_exe)
upgrade_branch(available) ==
    IF ~available THEN "cve_pip_path" ELSE "cve_upgrade_module"

\* lines 318-340 and 362: pip_module_is_available(python_exe), memoized
pip_module_is_available(p) ==
    /\ pc[p] = "cve_probe"
    /\ IF pipCache[p] # "unset"
       THEN /\ Goto(p, upgrade_branch(pipCache[p] = "yes"))
            /\ UNCHANGED <<log, pipCache>>
       ELSE IF ~PathExists(python_exe)
            THEN \* _validate_path(python_exe, exists=True)
                 /\ Raise(p)
                 /\ UNCHANGED <<log, pipCache>>
            ELSE \E available \in BOOLEAN :
                   /\ Logged(p, PipProbe)
                   /\ pipCache' = [pipCache EXCEPT
                                     ![p] = IF available THEN "yes" ELSE "no"]
                   /\ Goto(p, upgrade_branch(available))
    /\ UNCHANGED <<gitCache, choice, prompts, proceed, modules, command,
                   check, lastRun, called, created, fsVars, windows>>

\* lines 363-369: the standalone executable
cve_pip_path(p) ==
    /\ pc[p] = "cve_pip_path"
    /\ IF ~PathExists(pip_path(VenvDir(GitRoot)))
       THEN /\ Logged(p, Diagnostic("pip is not available"))
            /\ Exit(p, 1)
            /\ UNCHANGED <<command, check>>
       ELSE /\ CallRunCommand(p, UpgradeByExecutable, TRUE, "cve_return")
            /\ UNCHANGED log
    /\ UNCHANGED <<gitCache, pipCache, choice, prompts, proceed, modules,
                   lastRun, called, created, fsVars, windows>>

\* lines 371-373
cve_upgrade_module(p) ==
    /\ pc[p] = "cve_upgrade_module"
    /\ CallRunCommand(p, UpgradeByModule, TRUE, "cve_return")
    /\ UNCHANGED <<log, gitCache, pipCache, choice, prompts, proceed, modules,
                   lastRun, called, created, fsVars, windows>>

\* the end of create_virtual_environment after an upgrade
cve_return(p) ==
    /\ pc[p] = "cve_return"
    /\ Return(p)
    /\ UNCHANGED <<log, gitCache, pipCache, choice, prompts, proceed, modules,
                   command, check, lastRun, called, created, fsVars, windows>>

\* ----------------------------------------------------------- Tool Installer
\* lines 464-472
spec_str(module) ==
    LET named == module.name
        with_extras == IF module.extras # "" THEN named \o module.extras
                       ELSE named
    IN  IF module.version # "" THEN with_extras \o module.version
        ELSE with_extras

_build_install_command(base_command, mods) ==
    (base_command \o <<"install", "-U">>)
        \o [i \in 1..Len(mods) |-> spec_str(mods[i])]

IsUv(module) == module.name = "uv"
IsNotUv(module) == module.name # "uv"

\* line 396
using_uv(mods) == \E i \in 1..Len(mods) : IsUv(mods[i])

\* line 412
uv_module(mods) == SelectSeq(mods, IsUv)[1]

\* faulty variant: uv is handed the whole list
other_modules_all(mods) == mods

\* lines 413-414
other_modules(mods) == SelectSeq(mods, IsNotUv)

PipBase == <<python_exe, "-m", "pip", "--require-virtualenv">>
UvBase == <<python_exe, "-m", "uv", "pip">>

\* lines 389-400
install_tools(p) ==
    /\ pc[p] = "install_tools"
    /\ IF ~PathExists(python_exe)
       THEN Raise(p)       \* _validate_path(python_exe, exists=True)
       ELSE IF modules[p] = <<>> THEN Return(p)
       ELSE IF using_uv(modules[p]) THEN Goto(p, "install_with_uv")
       ELSE Goto(p, "install_with_pip")
    /\ UNCHANGED <<log, gitCache, pipCache, choice, prompts, proceed, modules,
                   command, check, lastRun, called, created, fsVars, windows>>

\* lines 409-419 and 439-449: install_with_pip(python_exe, [uv_module])
install_with_uv(p) ==
    /\ pc[p] = "install_with_uv"
    /\ IF ~PathExists(python_exe)
       THEN /\ Raise(p)
            /\ UNCHANGED <<command, check>>
       ELSE CallRunCommand(
                p, _build_install_command(PipBase, <<uv_module(modules[p])>>),
                TRUE, "iwu_bootstrapped")
    /\ UNCHANGED <<log, gitCache, pipCache, choice, prompts, proceed, modules,
                   lastRun, called, created, fsVars, windows>>

\* lines 421-428
iwu_bootstrapped(p) ==
    /\ pc[p] = "iwu_bootstrapped"
    /\ IF other_modules(modules[p]) = <<>>
       THEN /\ Return(p)
            /\ UNCHANGED <<command, check>>
       ELSE CallRunCommand(
                p, _build_install_command(UvBase, other_modules(modules[p])),
                TRUE, "it_return")
    /\ UNCHANGED <<log, gitCache, pipCache, choice, prompts, proceed, modules,
                   lastRun, called, created, fsVars, windows>>

\* lines 439-449: install_with_pip(python_exe, modules)
install_with_pip(p) ==
    /\ pc[p] = "install_with_pip"
    /\ IF ~PathExists(python_exe)
       THEN /\ Raise(p)
            /\ UNCHANGED <<command, check>>
       ELSE CallRunCommand(
                p, _build_install_command(PipBase, modules[p]),
                TRUE, "it_return")
    /\ UNCHANGED <<log, gitCache, pipCache, choice, prompts, proceed, modules,
                   lastRun, called, created, fsVars, windows>>

\* the end of install_with_uv / install_with_pip and of install_tools
it_return(p) ==
    /\ pc[p] = "it_return"
    /\ Return(p)
    /\ UNCHANGED <<log, gitCache, pipCache, choice, prompts, proceed, modules,
                   command, check, lastRun, called, created, fsVars, windows>>

\* ---------------------------------------------------------------- script
\* lines 25-29: the interpreter running the script is 3.8 or later, or not
version_check(p) ==
    /\ pc[p] = "version_check"
    /\ \E supported \in BOOLEAN :
         IF supported
         THEN /\ Goto(p, "main")
              /\ UNCHANGED log
         ELSE /\ Logged(p, Diagnostic("Python 3.8 or later is required"))
              /\ Exit(p, 2)
    /\ UNCHANGED <<gitCache, pipCache, choice, prompts, proceed, modules,
                   command, check, lastRun, called, created, fsVars, windows>>

\* line 497: confirmation_prompt()
main(p) ==
    /\ pc[p] = "main"
    /\ Call(p, "confirmation_prompt", "main_confirmed")
    /\ UNCHANGED <<log, gitCache, pipCache, choice, prompts, proceed, modules,
                   command, check, lastRun, called, created, fsVars, windows>>

\* faulty variant: main ignores what confirmation_prompt returned
main_never_aborts(answer) == FALSE

\* line 497: main leaves when confirmation_prompt returned this value
main_aborts(answer) == ~answer

\* lines 497-501
main_confirmed(p) ==
    /\ pc[p] = "main_confirmed"
    /\ IF main_aborts(proceed[p])
       THEN /\ Logged(p, <<"print", "Aborted by user.">>)
            /\ Exit(p, 0)
       ELSE /\ Call(p, "get_git_root", "main_got_root")
            /\ UNCHANGED log
    /\ UNCHANGED <<gitCache, pipCache, choice, prompts, proceed, modules,
                   command, check, lastRun, called, created, fsVars, windows>>

\* lines 503-507
main_got_root(p) ==
    /\ pc[p] = "main_got_root"
    /\ Call(p, "create_virtual_environment", "main_created")
    /\ UNCHANGED <<log, gitCache, pipCache, choice, prompts, proceed, modules,
                   command, check, lastRun, called, created, fsVars, windows>>

\* line 508
main_created(p) ==
    /\ pc[p] = "main_created"
    /\ modules' = [modules EXCEPT ![p] = BOOTSTRAP_MODULES]
    /\ Call(p, "install_tools", "main_installed")
    /\ UNCHANGED <<log, gitCache, pipCache, choice, prompts, proceed,
                   command, check, lastRun, called, created, fsVars, windows>>

\* lines 509-510 and 514: the instructions, then the script ends
main_installed(p) ==
    /\ pc[p] = "main_installed"
    /\ Logged(p, print_instructions)
    /\ Exit(p, 0)
    /\ UNCHANGED <<gitCache, pipCache, choice, prompts, proceed, modules,
                   command, check, lastRun, called, created, fsVars, windows>>

\* ------------------------------------------------- a caller of the module
\* The functions of the module called one at a time by an importing
\* program, as its tests do; log[p] then holds what the current call
\* issued.
DirectCall(p, function) ==
    /\ pc[p] = "idle"
    /\ called' = [called EXCEPT ![p] = function]
    /\ log' = [log EXCEPT ![p] = <<>>]

call_get_git_root(p) ==
    /\ DirectCall(p, "get_git_root")
    /\ Call(p, "get_git_root", "idle")
    /\ UNCHANGED <<gitCache, pipCache, choice, prompts, proceed, modules,
                   command, check, lastRun, created, fsVars, windows>>

call_confirmation_prompt(p) ==
    /\ DirectCall(p, "confirmation_prompt")
    /\ Call(p, "confirmation_prompt", "idle")
    /\ UNCHANGED <<gitCache, pipCache, choice, prompts, proceed, modules,
                   command, check, lastRun, created, fsVars, windows>>

call_create_virtual_environment(p) ==
    /\ DirectCall(p, "create_virtual_environment")
    /\ Call(p, "create_virtual_environment", "idle")
    /\ UNCHANGED <<gitCache, pipCache, choice, prompts, proceed, modules,
                   command, check, lastRun, created, fsVars, windows>>

call_install_tools(p) ==
    /\ DirectCall(p, "install_tools")
    /\ \E mods \in ModuleLists : modules' = [modules EXCEPT ![p] = mods]
    /\ Call(p, "install_tools", "idle")
    /\ UNCHANGED <<gitCache, pipCache, choice, prompts, proceed,
                   command, check, lastRun, created, fsVars, windows>>

DirectCommands == { <<"echo", "hello">>, <<"no-such-program">> }

call_run_command(p) ==
    /\ DirectCall(p, "run_command")
    /\ \E cmd \in DirectCommands, chk \in BOOLEAN :
         CallRunCommand(p, cmd, chk, "idle")
    /\ UNCHANGED <<gitCache, pipCache, choice, prompts, proceed, modules,
                   lastRun, created, fsVars, windows>>

\* ---------------------------------------------------------- specifications
\* the filesystem a run can find: nothing, or a .venv with or without its
\* interpreter and pip script
InitFilesystem ==
    /\ dirExists \in BOOLEAN
    /\ pyExists \in BOOLEAN
    /\ pipExists \in BOOLEAN
    /\ pyExists => dirExists
    /\ pipExists => dirExists

InitProcs(live, start) ==
    /\ pc = [p \in Procs |-> IF p \in live THEN start ELSE "off"]
    /\ stack = [p \in Procs |-> <<>>]
    /\ exitCode = [p \in Procs |-> 0]
    /\ log = [p \in Procs |-> <<>>]
    /\ gitCache = [p \in Procs |-> ""]
    /\ pipCache = [p \in Procs |-> "unset"]
    /\ choice = [p \in Procs |-> <<>>]
    /\ prompts = [p \in Procs |-> 0]
    /\ proceed = [p \in Procs |-> FALSE]
    /\ modules = [p \in Procs |-> <<>>]
    /\ command = [p \in Procs |-> <<>>]
    /\ check = [p \in Procs |-> TRUE]
    /\ lastRun = [p \in Procs |-> NoRun]
    /\ called = [p \in Procs |-> ""]
    /\ created = [p \in Procs |-> 0]
    /\ windows \in BOOLEAN
    /\ InitFilesystem

Init == InitProcs({1}, "version_check")
InitConc == InitProcs(Procs, "version_check")
InitUnit == InitProcs({1}, "idle")

Step(p) ==
    \/ get_git_root(p)
    \/ run_command(p)
    \/ confirmation_prompt(p)
    \/ cp_got_root(p)
    \/ cp_loop(p)
    \/ cp_input(p)
    \/ cp_interrupted(p)
    \/ cp_return(p)
    \/ create_virtual_environment(p)
    \/ cve_create(p)
    \/ cve_ensurepip(p)
    \/ pip_module_is_available(p)
    \/ cve_pip_path(p)
    \/ cve_upgrade_module(p)
    \/ cve_return(p)
    \/ install_tools(p)
    \/ install_with_uv(p)
    \/ iwu_bootstrapped(p)
    \/ it_return(p)

MainStep(p) ==
    \/ version_check(p)
    \/ main(p)
    \/ main_confirmed(p)
    \/ main_got_root(p)
    \/ main_created(p)
    \/ main_installed(p)

CallerStep(p) ==
    \/ install_with_pip(p)
    \/ call_get_git_root(p)
    \/ call_confirmation_prompt(p)
    \/ call_create_virtual_environment(p)
    \/ call_install_tools(p)
    \/ call_run_command(p)

Next == \E p \in Procs : Step(p) \/ MainStep(p)
NextUnit == \E p \in Procs : Step(p) \/ CallerStep(p)

Spec == Init /\ [][Next]_vars
SpecConc == InitConc /\ [][Next]_vars
SpecUnit == InitUnit /\ [][NextUnit]_vars

\* ================================================================= claims
InLog(p, entry) == \E i \in 1..Len(log[p]) : log[p][i] = entry

CountInLog(p, entry) == Cardinality({ i \in 1..Len(log[p]) : log[p][i] = entry })

LastLogged(p, entry) == log[p] # <<>> /\ log[p][Len(log[p])] = entry

Ended(p) == pc[p] \in { "exited", "traceback" }

\* ---- C1
ListedYes == { <<>>, <<"y">>, <<"Y">>, <<"y", "e", "s">> }
ListedNo == { <<"n">>, <<"n", "o">>, <<"N", "O">> }

\* C1: each of the answers "y", "Y", "yes" and "" ends the prompt with
\* proceed = true and each of "n", "no", "NO" ends it with proceed = false:
\* the prompt is never repeated after one of them, and the value returned
\* after one of them is the listed one.
C1_ListedAnswersEndPrompt ==
    /\ [](\A p \in Procs :
            pc[p] = "cp_input" /\ prompts[p] > 0
                => choice[p] \notin ListedYes \cup ListedNo)
    /\ [][\A p \in Procs :
            pc[p] = "cp_return" /\ pc'[p] # "cp_return"
                => /\ choice[p] \in ListedYes => proceed'[p]
                   /\ choice[p] \in ListedNo => ~proceed'[p]]_vars

\* ---- C2
PipInstallOf(mods) ==
    <<python_exe, "-m", "pip", "--require-virtualenv", "install", "-U">>
        \o [i \in 1..Len(mods) |-> spec_str(mods[i])]

UvInstallOf(mods) ==
    <<python_exe, "-m", "uv", "pip", "install", "-U">>
        \o [i \in 1..Len(mods) |-> spec_str(mods[i])]

Without(mods, i) == SubSeq(mods, 1, i - 1) \o SubSeq(mods, i + 1, Len(mods))

NamedUv(mods) == { i \in 1..Len(mods) : mods[i].name = "uv" }

NotNamedUv(mods) ==
    LET Other(m) == m.name # "uv" IN SelectSeq(mods, Other)

IsPrefix(s, t) == Len(s) <= Len(t) /\ s = SubSeq(t, 1, Len(s))

InstallToolsReturned(p) ==
    /\ called[p] = "install_tools"
    /\ pc[p] = "idle"
    /\ modules[p] # <<>>

\* C2 as stated: install_tools, for a non-empty list with a spec named
\* "uv", issues one pip install carrying only the uv spec and then one
\* "uv pip" install carrying every remaining spec of the list (none when
\* nothing remains); without a spec named "uv" it issues one pip install
\* carrying the whole list.
C2_RemainingSpecsByUv ==
    \A p \in Procs :
        InstallToolsReturned(p) =>
            LET mods == modules[p]
            IN  IF NamedUv(mods) # {}
                THEN \E i \in NamedUv(mods) :
                        LET rest == Without(mods, i)
                        IN  log[p] = <<PipInstallOf(<<mods[i]>>)>>
                                \o (IF rest = <<>> THEN <<>>
                                    ELSE <<UvInstallOf(rest)>>)
                ELSE log[p] = <<PipInstallOf(mods)>>

\* what install_tools issues for a list, in order
ExpectedInstalls(mods) ==
    IF NamedUv(mods) = {} THEN <<PipInstallOf(mods)>>
    ELSE LET first == CHOOSE i \in NamedUv(mods) :
                        \A j \in NamedUv(mods) : i <= j
             others == NotNamedUv(mods)
         IN  <<PipInstallOf(<<mods[first]>>)>>
                \o (IF others = <<>> THEN <<>> ELSE <<UvInstallOf(others)>>)

IsDiagnostic(entry) == Len(entry) = 2 /\ entry[1] = "print"

Commands(p) ==
    LET NotPrint(entry) == ~IsDiagnostic(entry) IN SelectSeq(log[p], NotPrint)

\* C2 amended: with a spec named "uv", install_tools issues one pip install
\* carrying only the first spec named "uv" and then one "uv pip" install
\* carrying every spec not named "uv" (none when there is none); without
\* one it issues one pip install carrying the whole list.  While the call
\* runs, what it has issued is a prefix of that.
C2_FirstUvThenOthers ==
    \A p \in Procs :
        called[p] = "install_tools" /\ modules[p] # <<>> =>
            /\ IsPrefix(Commands(p), ExpectedInstalls(modules[p]))
            /\ pc[p] = "idle" => log[p] = ExpectedInstalls(modules[p])

\* install_tools returned after a pip install of uv and a uv install of two
C2_Witness ==
    \E p \in Procs :
        /\ InstallToolsReturned(p)
        /\ modules[p] = BOOTSTRAP_MODULES
        /\ Len(log[p]) = 2
        /\ Len(log[p][2]) = 8

\* ---- C3
\* C3: whatever the caller does, a process runs venv.create at most once,
\* and a call of create_virtual_environment that does not create issues
\* nothing at all and does not end the process.
C3_CreateOnce ==
    \A p \in Procs :
        /\ created[p] <= 1
        /\ called[p] = "create_virtual_environment" /\ ~InLog(p, VenvCreate)
              => log[p] = <<>> /\ ~Ended(p)

\* a later call of create_virtual_environment returned, having done nothing,
\* after an earlier call of this process created the environment
C3_Witness ==
    \E p \in Procs :
        /\ created[p] = 1
        /\ called[p] = "create_virtual_environment"
        /\ pc[p] = "idle"
        /\ log[p] = <<>>

\* ---- C4
\* C4: in a run of main the git command is issued at most once and the
\* directory walk is made at most once; the call main makes after the
\* confirmation finds the cached root.
C4_GitQueriedOnce ==
    \A p \in Procs :
        /\ CountInLog(p, GitCommand) <= 1
        /\ CountInLog(p, DirectoryWalk) <= 1
        /\ pc[p] = "main_got_root" => gitCache[p] = GitRoot

\* main's own call of get_git_root has returned, after the one of the prompt
C4_Witness ==
    \E p \in Procs :
        /\ pc[p] = "main_got_root"
        /\ CountInLog(p, GitCommand) = 1
        /\ InLog(p, InputCall)

\* ---- C5
RunFailed(p) ==
    /\ lastRun[p].ran
    /\ \/ ~lastRun[p].found
       \/ lastRun[p].check /\ lastRun[p].returncode # 0

\* C5: after run_command found no executable the process has exited with 1;
\* after a child exited non-zero under check=True the process has exited
\* with the child's code; the process goes on past a run_command only when
\* the child succeeded or check was False, and then run_command printed no
\* failure.
C5_RunCommandTerminates ==
    \A p \in Procs :
        /\ lastRun[p].ran /\ ~lastRun[p].found
              => pc[p] = "exited" /\ exitCode[p] = 1
        /\ lastRun[p].ran /\ lastRun[p].found /\ lastRun[p].check
                          /\ lastRun[p].returncode # 0
              => pc[p] = "exited" /\ exitCode[p] = lastRun[p].returncode
        /\ lastRun[p].ran /\ ~RunFailed(p)
              => ~LastLogged(p, Diagnostic("command failed"))
        /\ pc[p] = "idle" /\ called[p] = "run_command" => ~RunFailed(p)

\* a child exited with a code above 1 and the process exited with that code
C5_Witness ==
    \E p \in Procs :
        /\ lastRun[p].ran /\ lastRun[p].found /\ lastRun[p].check
        /\ lastRun[p].returncode > 1
        /\ pc[p] = "exited"
        /\ exitCode[p] = lastRun[p].returncode

\* ---- C6
IsInstall(entry) ==
    \/ IsPrefix(PipBase \o <<"install", "-U">>, entry)
    \/ IsPrefix(UvBase \o <<"install", "-U">>, entry)

EnvironmentWork ==
    { VenvCreate, EnsurePip, PipProbe, UpgradeByModule, UpgradeByExecutable }

NothingBuilt(logOfP) ==
    \A i \in 1..Len(logOfP) :
        logOfP[i] \notin EnvironmentWork /\ ~IsInstall(logOfP[i])

\* C6: an interrupt, or the answer "n", "no" or "NO", makes
\* confirmation_prompt return False to its caller; main, given False, exits
\* with code 0 having created no environment and invoked no installer.
C6_AbortExitsZero ==
    [][\A p \in Procs :
        /\ pc[p] = "cp_interrupted" /\ pc'[p] # pc[p]
              => pc'[p] = Head(stack[p]) /\ ~proceed'[p]
        /\ pc[p] = "cp_return" /\ pc'[p] # pc[p] /\ choice[p] \in ListedNo
              => pc'[p] = Head(stack[p]) /\ ~proceed'[p]
        /\ pc[p] = "main_confirmed" /\ pc'[p] # pc[p] /\ ~proceed[p]
              => /\ pc'[p] = "exited"
                 /\ exitCode'[p] = 0
                 /\ created'[p] = 0
                 /\ NothingBuilt(log'[p])]_vars

\* main has exited with 0 on "Aborted by user." after the user was asked
C6_Witness ==
    \E p \in Procs :
        /\ pc[p] = "exited"
        /\ exitCode[p] = 0
        /\ LastLogged(p, <<"print", "Aborted by user.">>)
        /\ InLog(p, InputCall)
        /\ created[p] = 0

\* ---- C7
IsInstructions(entry) == Len(entry) = 2 /\ entry[1] = "print_instructions"

\* the component an entry of the log belongs to, in the order of the spec's
\* control flow; diagnostics belong to none
StageAsStated(entry) ==
    IF entry = InputCall THEN 1
    ELSE IF entry \in { GitCommand, DirectoryWalk } THEN 2
    ELSE IF entry \in EnvironmentWork THEN 3
    ELSE IF IsInstall(entry) THEN 4
    ELSE IF IsInstructions(entry) THEN 5
    ELSE 0

\* the same with the first two exchanged
StageInCode(entry) ==
    IF entry \in { GitCommand, DirectoryWalk } THEN 1
    ELSE IF entry = InputCall THEN 2
    ELSE IF entry \in EnvironmentWork THEN 3
    ELSE IF IsInstall(entry) THEN 4
    ELSE IF IsInstructions(entry) THEN 5
    ELSE 0

InStageOrder(p, Stage(_)) ==
    \A i, j \in 1..Len(log[p]) :
        i < j /\ Stage(log[p][i]) # 0 /\ Stage(log[p][j]) # 0
            => Stage(log[p][i]) <= Stage(log[p][j])

Reached(p, Stage(_), n) == \E i \in 1..Len(log[p]) : Stage(log[p][i]) = n

\* what the later stages need, whichever of the first two comes first
LaterStages(p, Stage(_)) ==
    /\ Reached(p, Stage, 3) => gitCache[p] # "" /\ InLog(p, InputCall)
    /\ Reached(p, Stage, 4) =>
          /\ gitCache[p] # "" /\ InLog(p, InputCall)
          /\ pc[p] \notin { "create_virtual_environment", "cve_create",
                            "cve_ensurepip", "cve_probe", "cve_pip_path",
                            "cve_upgrade_module", "cve_return" }
          /\ "cve_probe" \notin { stack[p][i] : i \in 1..Len(stack[p]) }
          /\ "cve_return" \notin { stack[p][i] : i \in 1..Len(stack[p]) }
    /\ Reached(p, Stage, 5) =>
          /\ InLog(p, UvInstallOf(NotNamedUv(BOOTSTRAP_MODULES)))
          /\ lastRun[p].ran /\ lastRun[p].found /\ lastRun[p].returncode = 0

\* C7 as stated: the user is asked before the repository root is located,
\* the environment is built after both, tools are installed after the
\* builder returned, instructions are printed after a successful install.
C7_AskThenLocate ==
    \A p \in Procs :
        InStageOrder(p, StageAsStated) /\ LaterStages(p, StageAsStated)

\* C7 amended: the same with the first two exchanged: the repository root
\* is located (the git query issued) before the user is asked.
C7_LocateThenAsk ==
    \A p \in Procs :
        InStageOrder(p, StageInCode) /\ LaterStages(p, StageInCode)

\* a run that went through every stage
C7_Witness ==
    \E p \in Procs :
        /\ InLog(p, GitCommand)
        /\ InLog(p, InputCall)
        /\ InLog(p, VenvCreate)
        /\ InLog(p, print_instructions)
        /\ pc[p] = "exited"

\* ---- C8
FirstIndex(p, entry) ==
    CHOOSE i \in 1..Len(log[p]) :
        log[p][i] = entry /\ \A j \in 1..(i - 1) : log[p][j] # entry

Before(p, a, b) == InLog(p, a) /\ FirstIndex(p, a) < FirstIndex(p, b)

CreationDone(p) ==
    /\ created[p] = 1
    /\ pc[p] \in { "main_created", "install_tools", "install_with_uv",
                   "iwu_bootstrapped", "it_return", "main_installed" }

\* C8: ensurepip runs right after the creation and before any probe or
\* upgrade; at most one upgrade command is issued; the module upgrade is
\* issued only when the pip module was importable, the executable upgrade
\* only when it was not and the executable exists; "pip is not available"
\* is followed by exit code 1 and no upgrade; a creation that completes has
\* issued exactly one upgrade.
C8_OneUpgradePath ==
    \A p \in Procs :
        /\ \A e \in { PipProbe, UpgradeByModule, UpgradeByExecutable } :
              InLog(p, e) => Before(p, EnsurePip, e)
        /\ InLog(p, EnsurePip) => Before(p, VenvCreate, EnsurePip)
        /\ CountInLog(p, UpgradeByModule) + CountInLog(p, UpgradeByExecutable)
              <= 1
        /\ InLog(p, UpgradeByModule) => pipCache[p] = "yes"
        /\ InLog(p, UpgradeByExecutable) => pipCache[p] = "no" /\ pipExists
        /\ InLog(p, Diagnostic("pip is not available")) =>
              /\ pipCache[p] = "no"
              /\ pc[p] = "exited" /\ exitCode[p] = 1
              /\ ~InLog(p, UpgradeByModule) /\ ~InLog(p, UpgradeByExecutable)
        /\ CreationDone(p) =>
              IF pipCache[p] = "yes" THEN InLog(p, UpgradeByModule)
              ELSE InLog(p, UpgradeByExecutable)

\* the environment was created and pip upgraded through its executable
C8_Witness ==
    \E p \in Procs :
        /\ CreationDone(p)
        /\ InLog(p, UpgradeByExecutable)
        /\ pipCache[p] = "no"

\* ---- C9
SpecifiedExit(p) ==
    /\ pc[p] = "exited"
    /\ exitCode[p] \in 0..MaxExitCode
    /\ exitCode[p] # 0 => \E i \in 1..Len(log[p]) : IsDiagnostic(log[p][i])

\* C9: a process that has ended has ended through sys.exit with one of the
\* specified codes, a diagnostic printed when the code is not 0, and never
\* through an exception nobody caught.
C9_EveryFailureIsAnExit ==
    \A p \in Procs : Ended(p) => SpecifiedExit(p)

\* ---- C10
Other(p) == CHOOSE q \in Procs : q # p

\* C10: while the other invocation is between its existence check and its
\* venv.create, an invocation that reaches the check with the directory
\* still absent passes it as well: nothing makes it wait or skip.
C10_CheckNotSerialised ==
    \A p \in Procs :
        /\ pc[p] = "create_virtual_environment"
        /\ pc[Other(p)] \in { "cve_create", "cve_ensurepip", "cve_probe",
                              "run_command" }
        /\ ~dirExists
        => ENABLED (create_virtual_environment(p) /\ pc'[p] = "cve_create")

\* both invocations saw the directory absent and both did the whole
\* creation work on it
C10_Witness ==
    \A p \in Procs :
        /\ created[p] = 1
        /\ InLog(p, VenvCreate)
        /\ InLog(p, EnsurePip)
        /\ InLog(p, UpgradeByModule) \/ InLog(p, UpgradeByExecutable)

====
